---- MODULE Spec2Model ----
(***************************************************************************)
(* A model of fsl/data/dtifit.py: the conversions between the three        *)
(* representations of a diffusion tensor field (3x3 matrix, 6 components,  *)
(* eigen-decomposition) and the dtifit directory locator and handle.       *)
(*                                                                         *)
(* An ndarray is a record [kind, shape, data]: shape is the tuple of its   *)
(* dimensions and data its elements in row-major (C) order.  Numbers are   *)
(* integer-valued binary floating-point numbers with a significand of      *)
(* MantBits bits: every product and sum is rounded to nearest, ties to     *)
(* even, as numpy's elementwise float arithmetic is.                       *)
(***************************************************************************)
EXTENDS Integers, Sequences, FiniteSets, TLC

VARIABLES
    input0,     \* conversions: the argument of the first call
    cur,        \* conversions: the value the last call returned (or raised)
    calls,      \* conversions: the names of the functions called so far
    dir,        \* locator: the file names the directory holds
    path,       \* locator: the path argument, a string of path tokens
    scanRev,    \* locator: the order in which glob lists a pattern's files
    pc,         \* locator: which call has been made
    prefix,     \* locator: what getDTIFitDataPrefix returned
    warnings,   \* locator: the number of warnings logged
    loaded,     \* locator: the paths handed to fslimage.Image, in order
    handle      \* locator: the constructed DTIFitTensor, or the exception

convVars == <<input0, cur, calls>>
locVars  == <<dir, path, scanRev, pc, prefix, warnings, loaded, handle>>
vars     == <<input0, cur, calls, dir, path, scanRev, pc, prefix, warnings,
              loaded, handle>>

----------------------------------------------------------------------------
(* Bounds of the model. *)

\* Significand width of the modelled floating-point numbers.
MantBits == 3
\* Matrix and component entries of the exhaustive inputs range over 0..MaxVal.
MaxVal == 1
\* Eigenvalues of the eigen-decomposition inputs range over -1..MaxEig.
MaxEig == 2

----------------------------------------------------------------------------
(* Floating-point arithmetic. *)

Abs(n) == IF n < 0 THEN -n ELSE n

RECURSIVE Pow2(_)
Pow2(e) == IF e = 0 THEN 1 ELSE 2 * Pow2(e - 1)

\* The spacing of the representable numbers around magnitude a.
RECURSIVE Ulp(_, _)
Ulp(a, q) == IF a < Pow2(MantBits) * q THEN q ELSE Ulp(a, 2 * q)

\* Round to nearest representable number, ties to even.
Round(n) ==
    LET a  == Abs(n)
        q  == Ulp(a, 1)
        m  == a \div q
        r  == a % q
        up == (2 * r > q) \/ (2 * r = q /\ m % 2 = 1)
        mag == (IF up THEN m + 1 ELSE m) * q
    IN  IF n < 0 THEN -mag ELSE mag

FMul(a, b) == Round(a * b)

FAdd(a, b) == Round(a + b)

----------------------------------------------------------------------------
(* numpy arrays. *)

Array(shape, data) == [kind |-> "array", shape |-> shape, data |-> data]

Raise(exc) == [kind |-> "error", exc |-> exc]

IsError(v) == v.kind = "error"

RECURSIVE Prod(_)
Prod(s) == IF s = <<>> THEN 1 ELSE Head(s) * Prod(Tail(s))

\* np.zeros(shape)
Zeros(shape) == Array(shape, [k \in 1..Prod(shape) |-> 0])

\* shape[-n:] of a Python tuple: the whole tuple when it is shorter than n.
LastN(s, n) == IF Len(s) <= n THEN s ELSE SubSeq(s, Len(s) - n + 1, Len(s))

\* shape[:-n] of a Python tuple: empty when it is shorter than n.
DropLastN(s, n) == IF Len(s) <= n THEN <<>> ELSE SubSeq(s, 1, Len(s) - n)

\* The multi-index (0-based) of the flat 0-based offset k in an array of shape s.
RECURSIVE Unravel(_, _)
Unravel(k, s) ==
    IF s = <<>> THEN <<>>
    ELSE LET inner == Prod(Tail(s))
         IN  <<k \div inner>> \o Unravel(k % inner, Tail(s))

\* The flat 0-based offset of the multi-index ix in an array of shape s.
RECURSIVE Ravel(_, _)
Ravel(ix, s) ==
    IF s = <<>> THEN 0
    ELSE Head(ix) * Prod(Tail(s)) + Ravel(Tail(ix), Tail(s))

\* a[ix] for a full multi-index.
At(a, ix) == a.data[Ravel(ix, a.shape) + 1]

\* a[..., i, j]
IndexLast2(a, i, j) ==
    LET s == DropLastN(a.shape, 2)
    IN  Array(s, [k \in 1..Prod(s) |-> At(a, Unravel(k - 1, s) \o <<i, j>>)])

\* a[..., i]
IndexLast(a, i) ==
    LET s == DropLastN(a.shape, 1)
    IN  Array(s, [k \in 1..Prod(s) |-> At(a, Unravel(k - 1, s) \o <<i>>)])

\* np.stack(arrays, -1) of arrays of one shape.
Stack(arrays) ==
    LET s == arrays[1].shape
        n == Len(arrays)
    IN  Array(s \o <<n>>,
              [k \in 1..(Prod(s) * n) |->
                  arrays[((k - 1) % n) + 1].data[((k - 1) \div n) + 1]])

\* a.reshape(shape): the same elements in the same order.
Reshape(a, shape) == Array(shape, a.data)

\* a[..., None, None], a[..., None, :] and a[..., :, None]
NewAxes2(a) == Reshape(a, a.shape \o <<1, 1>>)
NewAxisBeforeLast(a) ==
    Reshape(a, DropLastN(a.shape, 1) \o <<1>> \o LastN(a.shape, 1))
NewAxisAfterLast(a) == Reshape(a, a.shape \o <<1>>)

Max(x, y) == IF x >= y THEN x ELSE y

\* The broadcast of two shapes of one rank (each dimension equal, or 1).
BroadcastShape(s, t) == [d \in 1..Len(s) |-> Max(s[d], t[d])]

\* The element of a that the broadcast index ix reads.
BroadcastAt(a, ix) ==
    At(a, [d \in 1..Len(ix) |-> IF a.shape[d] = 1 THEN 0 ELSE ix[d]])

\* a op b, elementwise with broadcasting.
Elementwise(op, a, b) ==
    LET s == BroadcastShape(a.shape, b.shape)
    IN  Array(s, [k \in 1..Prod(s) |->
                     LET ix == Unravel(k - 1, s)
                         x == BroadcastAt(a, ix)
                         y == BroadcastAt(b, ix)
                     IN  IF op = "*" THEN FMul(x, y) ELSE FAdd(x, y)])

Times(a, b) == Elementwise("*", a, b)

Plus(a, b) == Elementwise("+", a, b)

----------------------------------------------------------------------------
(* The conversions. *)

\* A slip in the broadcast: V[..., None, :] on both sides.
OuterTerm_SameAxis(L, V) ==
    Times(Times(NewAxes2(L), NewAxisBeforeLast(V)), NewAxisBeforeLast(V))

OuterTerm(L, V) ==
    Times(Times(NewAxes2(L), NewAxisBeforeLast(V)), NewAxisAfterLast(V))

eigendecompositionToTensor(e) ==
    IF e.L2.shape # e.L1.shape \/ e.L3.shape # e.L1.shape
    THEN Raise("ValueError")
    ELSE IF \E V \in {e.V1, e.V2, e.V3} : V.shape # e.L3.shape \o <<3>>
    THEN Raise("ValueError")
    ELSE Plus(Plus(OuterTerm(e.L1, e.V1), OuterTerm(e.L2, e.V2)),
              OuterTerm(e.L3, e.V3))

\* A slip in the index table: entry [1,0] taken for Dxy.
tensorToComponents_Lower(matrices) ==
    IF LastN(matrices.shape, 2) # <<3, 3>>
    THEN Raise("ValueError")
    ELSE Stack(<<IndexLast2(matrices, 0, 0),
                 IndexLast2(matrices, 1, 0),
                 IndexLast2(matrices, 0, 2),
                 IndexLast2(matrices, 1, 1),
                 IndexLast2(matrices, 1, 2),
                 IndexLast2(matrices, 2, 2)>>)

tensorToComponents(matrices) ==
    IF LastN(matrices.shape, 2) # <<3, 3>>
    THEN Raise("ValueError")
    ELSE Stack(<<IndexLast2(matrices, 0, 0),
                 IndexLast2(matrices, 0, 1),
                 IndexLast2(matrices, 0, 2),
                 IndexLast2(matrices, 1, 1),
                 IndexLast2(matrices, 1, 2),
                 IndexLast2(matrices, 2, 2)>>)

\* A slip in the index table: components (1, 3, 5) for the second column.
componentsToTensor_Second(components) ==
    IF components.shape = <<>>
    THEN Raise("IndexError")
    ELSE IF components.shape[Len(components.shape)] # 6
    THEN Raise("ValueError")
    ELSE LET first  == Stack(<<IndexLast(components, 0),
                               IndexLast(components, 1),
                               IndexLast(components, 2)>>)
             second == Stack(<<IndexLast(components, 1),
                               IndexLast(components, 3),
                               IndexLast(components, 5)>>)
             third  == Stack(<<IndexLast(components, 2),
                               IndexLast(components, 4),
                               IndexLast(components, 5)>>)
         IN  Stack(<<first, second, third>>)

componentsToTensor(components) ==
    IF components.shape = <<>>
    THEN Raise("IndexError")
    ELSE IF components.shape[Len(components.shape)] # 6
    THEN Raise("ValueError")
    ELSE LET first  == Stack(<<IndexLast(components, 0),
                               IndexLast(components, 1),
                               IndexLast(components, 2)>>)
             second == Stack(<<IndexLast(components, 1),
                               IndexLast(components, 3),
                               IndexLast(components, 4)>>)
             third  == Stack(<<IndexLast(components, 2),
                               IndexLast(components, 4),
                               IndexLast(components, 5)>>)
         IN  Stack(<<first, second, third>>)

----------------------------------------------------------------------------
(* The symmetric eigen-solver, numpy.linalg.eigh. *)

RECURSIVE Concat(_)
Concat(seqs) == IF seqs = <<>> THEN <<>> ELSE Head(seqs) \o Concat(Tail(seqs))

\* All the sequences made of one element of each set, in order.
RECURSIVE SeqProduct(_)
SeqProduct(sets) ==
    IF sets = <<>> THEN {<<>>}
    ELSE {<<h>> \o t : h \in Head(sets), t \in SeqProduct(Tail(sets))}

Dot(u, v) == u[1] * v[1] + u[2] * v[2] + u[3] * v[3]

\* The triples of exactly orthonormal vectors.  A vector of binary
\* floating-point numbers has norm exactly 1 only if it is a signed axis
\* vector, so entries -1, 0 and 1 give all of them.
OrthoTriples ==
    LET Vecs == {v \in [1..3 -> -1..1] : Dot(v, v) = 1}
    IN  {q \in Vecs \X Vecs \X Vecs :
            Dot(q[1], q[2]) = 0 /\ Dot(q[1], q[3]) = 0 /\ Dot(q[2], q[3]) = 0}

\* Entry (i, j), 0-based, of the symmetric matrix that eigh reads from the
\* lower triangle of the row-major 3x3 matrix A (UPLO = 'L', the default).
LowerSym(A, i, j) == IF i >= j THEN A[3 * i + j + 1] ELSE A[3 * j + i + 1]

\* Row i (0-based) of that symmetric matrix applied to the vector v.
SymRowDot(A, i, v) ==
    LowerSym(A, i, 0) * v[1] + LowerSym(A, i, 1) * v[2] + LowerSym(A, i, 2) * v[3]

\* v^T A v for a unit vector v: the eigenvalue, if v is an eigenvector.
Rayleigh(A, v) ==
    v[1] * SymRowDot(A, 0, v) + v[2] * SymRowDot(A, 1, v) + v[3] * SymRowDot(A, 2, v)

IsEigenvector(A, v) ==
    \A i \in 0..2 : SymRowDot(A, i, v) = Rayleigh(A, v) * v[i + 1]

\* What eigh may return for one 3x3 matrix: the eigenvalues w in ascending
\* order and orthonormal eigenvectors q, q[k] belonging to w[k].  eigh fixes
\* neither the sign of an eigenvector nor the basis of a repeated eigenvalue's
\* eigenspace, so every valid decomposition is a possible result.
EighOne(A) ==
    {[w |-> <<Rayleigh(A, q[1]), Rayleigh(A, q[2]), Rayleigh(A, q[3])>>, q |-> q] :
        q \in {t \in OrthoTriples :
                  /\ \A k \in 1..3 : IsEigenvector(A, t[k])
                  /\ Rayleigh(A, t[1]) <= Rayleigh(A, t[2])
                  /\ Rayleigh(A, t[2]) <= Rayleigh(A, t[3])}}

\* What eigh may return for a stack of matrices of shape (n, 3, 3): vals of
\* shape (n, 3), and vecs of shape (n, 3, 3) whose column k is eigenvector k.
Eigh(flat) ==
    LET n == flat.shape[1]
        perMatrix == [m \in 1..n |-> EighOne(SubSeq(flat.data, 9 * (m - 1) + 1, 9 * m))]
    IN  {[vals |-> Array(<<n, 3>>, Concat([m \in 1..n |-> r[m].w])),
          vecs |-> Array(<<n, 3, 3>>,
                         Concat([m \in 1..n |->
                             [e \in 1..9 |-> r[m].q[((e - 1) % 3) + 1][((e - 1) \div 3) + 1]]]))] :
            r \in SeqProduct(perMatrix)}

Eig(V1, V2, V3, L1, L2, L3) ==
    [kind |-> "eig", V1 |-> V1, V2 |-> V2, V3 |-> V3, L1 |-> L1, L2 |-> L2, L3 |-> L3]

\* matrices.reshape((-1, 3, 3)): the argument handed to eigh.
FlatMatrices(matrices) ==
    Reshape(matrices, <<Prod(DropLastN(matrices.shape, 2)), 3, 3>>)

\* a[..., i, :], for the slip below.
IndexBeforeLast(a, i) ==
    LET s == DropLastN(a.shape, 2)
        n == a.shape[Len(a.shape)]
    IN  Array(s \o <<n>>,
              [k \in 1..(Prod(s) * n) |->
                  At(a, Unravel((k - 1) \div n, s) \o <<i, (k - 1) % n>>)])

\* A slip: the solver's order kept, index 0 taken for L1 and V1.
tensorToEigendecomposition_Ascending(matrices, sol) ==
    IF LastN(matrices.shape, 2) # <<3, 3>>
    THEN Raise("ValueError")
    ELSE LET shape    == DropLastN(matrices.shape, 2)
             vecShape == shape \o <<3>>
         IN  Eig(Reshape(IndexLast(sol.vecs, 0), vecShape),
                 Reshape(IndexLast(sol.vecs, 1), vecShape),
                 Reshape(IndexLast(sol.vecs, 2), vecShape),
                 Reshape(IndexLast(sol.vals, 0), shape),
                 Reshape(IndexLast(sol.vals, 1), shape),
                 Reshape(IndexLast(sol.vals, 2), shape))

\* A slip: rows of vecs taken for the eigenvectors, vecs[:, k, :].
tensorToEigendecomposition_Rows(matrices, sol) ==
    IF LastN(matrices.shape, 2) # <<3, 3>>
    THEN Raise("ValueError")
    ELSE LET shape    == DropLastN(matrices.shape, 2)
             vecShape == shape \o <<3>>
         IN  Eig(Reshape(IndexBeforeLast(sol.vecs, 2), vecShape),
                 Reshape(IndexBeforeLast(sol.vecs, 1), vecShape),
                 Reshape(IndexBeforeLast(sol.vecs, 0), vecShape),
                 Reshape(IndexLast(sol.vals, 2), shape),
                 Reshape(IndexLast(sol.vals, 1), shape),
                 Reshape(IndexLast(sol.vals, 0), shape))

\* sol is the result of npla.eigh(flat_matrices).
tensorToEigendecomposition(matrices, sol) ==
    IF LastN(matrices.shape, 2) # <<3, 3>>
    THEN Raise("ValueError")
    ELSE LET shape    == DropLastN(matrices.shape, 2)
             vecShape == shape \o <<3>>
             l1 == Reshape(IndexLast(sol.vals, 2), shape)
             l2 == Reshape(IndexLast(sol.vals, 1), shape)
             l3 == Reshape(IndexLast(sol.vals, 0), shape)
             v1 == Reshape(IndexLast(sol.vecs, 2), vecShape)
             v2 == Reshape(IndexLast(sol.vecs, 1), vecShape)
             v3 == Reshape(IndexLast(sol.vecs, 0), vecShape)
         IN  Eig(v1, v2, v3, l1, l2, l3)

\* The results eigh may hand to tensorToEigendecomposition(matrices); the
\* solver is not reached when the shape is rejected.
Solutions(matrices) ==
    IF LastN(matrices.shape, 2) # <<3, 3>>
    THEN {[vals |-> Array(<<0, 3>>, <<>>), vecs |-> Array(<<0, 3, 3>>, <<>>)]}
    ELSE Eigh(FlatMatrices(matrices))

eigendecompositionToComponents(e) ==
    LET t == eigendecompositionToTensor(e)
    IN  IF IsError(t) THEN t ELSE tensorToComponents(t)

componentsToEigendecomposition(components, sol) ==
    LET t == componentsToTensor(components)
    IN  IF IsError(t) THEN t ELSE tensorToEigendecomposition(t, sol)

\* The results eigh may hand to componentsToEigendecomposition(components).
ComponentSolutions(components) ==
    LET t == componentsToTensor(components)
    IN  IF IsError(t) THEN Solutions(Zeros(<<>>)) ELSE Solutions(t)

decomposeTensorMatrix(data, sol) == componentsToEigendecomposition(data, sol)

----------------------------------------------------------------------------
(* The arguments the conversions are called with. *)

NoValue == [kind |-> "none"]

\* The shapes of up to three dimensions of sizes 2, 3 and 6.
ProbeShapes ==
    LET D == {2, 3, 6}
    IN  {<<>>} \cup {<<a>> : a \in D} \cup {<<a, b>> : a, b \in D}
               \cup {<<a, b, c>> : a, b, c \in D}

\* Every 3x3 matrix and every 6-vector with entries in 0..MaxVal.
AllMatrices == {Array(<<3, 3>>, d) : d \in [1..9 -> 0..MaxVal]}
AllComponents == {Array(<<6>>, d) : d \in [1..6 -> 0..MaxVal]}

\* Fields of two items each, over the leading shapes (2,), (1,2) and (2,1).
Pairs(items, tail) ==
    {Array(s \o tail, x \o y) : s \in {<<2>>, <<1, 2>>, <<2, 1>>}, x \in items, y \in items}

SomeMatrices ==
    {[e \in 1..9 |-> IF e \in P THEN 1 ELSE 0] :
        P \in {{}, {1, 5, 9}, {2, 4}, {2}, {4}, {3, 8}, {1, 6, 7}}}

SomeComponents ==
    {[e \in 1..6 |-> IF e \in P THEN 1 ELSE 0] :
        P \in {{}, {1, 4, 6}, {2}, {3, 5}, {1, 2, 3, 4, 5}}}

TensorInputs ==
    AllMatrices \cup Pairs(SomeMatrices, <<3, 3>>) \cup {Zeros(s) : s \in ProbeShapes}

ComponentInputs ==
    AllComponents \cup Pairs(SomeComponents, <<6>>)
        \cup {Zeros(s) : s \in ProbeShapes \cup {<<5>>, <<7>>, <<3, 5>>}}

\* The matrices whose lower triangle is diagonal, with eigenvalues in
\* -1..MaxEig and anything in the upper triangle, which eigh does not read.
LowerDiagonal ==
    {[e \in 1..9 |-> IF e \in {1, 5, 9} THEN dg[(e + 3) \div 4]
                     ELSE IF e \in {2, 3, 6} THEN up ELSE 0] :
        dg \in [1..3 -> -1..MaxEig], up \in {0, 1}}

SomeDiagonal ==
    {<<2, 0, 0, 0, 1, 0, 0, 0, 0>>, <<0, 1, 1, 0, 2, 1, 0, 0, 1>>,
     <<1, 0, 0, 0, 1, 0, 0, 0, -1>>}

SymmetricInputs ==
    {Array(<<3, 3>>, d) : d \in LowerDiagonal} \cup Pairs(SomeDiagonal, <<3, 3>>)
        \cup {Array(<<1, 3, 3>>, d) : d \in SomeDiagonal}
        \cup {Zeros(s) : s \in {t \in ProbeShapes : LastN(t, 2) # <<3, 3>>}}

\* Components of diagonal tensors, and of some that are not diagonal.
SomeDiagonalComponents ==
    {<<2, 0, 0, 1, 0, 0>>, <<0, 0, 0, 2, 0, 1>>, <<1, 0, 0, -1, 0, 1>>}

DecomposableInputs ==
    AllComponents \cup Pairs(SomeDiagonalComponents, <<6>>)
        \cup {Array(<<1, 6>>, d) : d \in SomeDiagonalComponents}
        \cup {Zeros(s) : s \in {t \in ProbeShapes \cup {<<5>>} : LastN(t, 1) # <<6>>}}

\* The eigenvalue triples in descending order.
Descending ==
    {l \in [1..3 -> -1..MaxEig] : l[1] >= l[2] /\ l[2] >= l[3]}

Scalar(x) == Array(<<>>, <<x>>)
Vector(v) == Array(<<3>>, v)

\* The valid eigen-decompositions of a single tensor.
OrthoEigs ==
    {Eig(Vector(q[1]), Vector(q[2]), Vector(q[3]),
         Scalar(l[1]), Scalar(l[2]), Scalar(l[3])) :
        q \in OrthoTriples, l \in Descending}

\* Valid eigen-decompositions of a field of two tensors, leading shape (2,).
SomeTriples ==
    {<<<<1, 0, 0>>, <<0, 1, 0>>, <<0, 0, 1>>>>,
     <<<<0, 0, -1>>, <<1, 0, 0>>, <<0, -1, 0>>>>}
SomeDescending == {<<2, 1, 0>>, <<1, 1, -1>>, <<2, 2, 2>>}
OrthoEigPairs ==
    {Eig(Array(<<2, 3>>, p[1][1] \o q[1][1]), Array(<<2, 3>>, p[1][2] \o q[1][2]),
         Array(<<2, 3>>, p[1][3] \o q[1][3]),
         Array(<<2>>, <<p[2][1], q[2][1]>>), Array(<<2>>, <<p[2][2], q[2][2]>>),
         Array(<<2>>, <<p[2][3], q[2][3]>>)) :
        p \in SomeTriples \X SomeDescending, q \in SomeTriples \X SomeDescending}

\* Arguments that are no eigen-decomposition: any vectors, any values.
SomeVectors == {<<1, 0, 0>>, <<3, 5, 1>>, <<1, 2, 2>>, <<2, 1, -2>>, <<0, -1, 3>>}
SomeValues == {0, 1, 3}
FreeEigs ==
    {Eig(Vector(v[1]), Vector(v[2]), Vector(v[3]),
         Scalar(l[1]), Scalar(l[2]), Scalar(l[3])) :
        v \in SomeVectors \X SomeVectors \X SomeVectors,
        l \in SomeValues \X SomeValues \X SomeValues}
FreeEigPairs ==
    {Eig(Array(<<2, 3>>, v \o <<3, 5, 1>>), Array(<<2, 3>>, <<1, 2, 2>> \o v),
         Array(<<2, 3>>, v \o v),
         Array(<<2>>, <<3, l>>), Array(<<2>>, <<l, 1>>), Array(<<2>>, <<1, 3>>)) :
        v \in SomeVectors, l \in SomeValues}

\* Arguments of every combination of these shapes.
ShapeEigs ==
    LET LS == {<<>>, <<1>>, <<2>>}
        VS == {<<3>>, <<1, 3>>, <<2, 3>>, <<2>>}
    IN  {Eig(Zeros(v[1]), Zeros(v[2]), Zeros(v[3]),
             Zeros(l[1]), Zeros(l[2]), Zeros(l[3])) :
            v \in VS \X VS \X VS, l \in LS \X LS \X LS}

EigInputs == OrthoEigs \cup OrthoEigPairs \cup FreeEigs \cup FreeEigPairs \cup ShapeEigs

----------------------------------------------------------------------------
(* The conversion calls. *)

\* The compositions of conversions that are followed: the round trips, and
\* each conversion on its own.
Chains ==
    {<<"tensorToComponents">>, <<"tensorToComponents", "componentsToTensor">>,
     <<"componentsToTensor">>, <<"componentsToTensor", "tensorToComponents">>,
     <<"eigendecompositionToTensor">>,
     <<"eigendecompositionToTensor", "tensorToEigendecomposition">>,
     <<"tensorToEigendecomposition">>,
     <<"eigendecompositionToComponents">>,
     <<"componentsToEigendecomposition">>}

\* The arguments of the next call: a fresh one, or what the last call returned.
Args(name, fresh, kind) ==
    IF Append(calls, name) \notin Chains THEN {}
    ELSE IF calls = <<>> THEN fresh
    ELSE IF cur.kind = kind THEN {cur} ELSE {}

Call(name, x, result) ==
    /\ calls' = Append(calls, name)
    /\ input0' = (IF calls = <<>> THEN x ELSE input0)
    /\ cur' = result
    /\ UNCHANGED locVars

CallTensorToComponents ==
    \E x \in Args("tensorToComponents", TensorInputs, "array") :
        Call("tensorToComponents", x, tensorToComponents(x))

CallComponentsToTensor ==
    \E x \in Args("componentsToTensor", ComponentInputs, "array") :
        Call("componentsToTensor", x, componentsToTensor(x))

CallEigendecompositionToTensor ==
    \E x \in Args("eigendecompositionToTensor", EigInputs, "eig") :
        Call("eigendecompositionToTensor", x, eigendecompositionToTensor(x))

CallTensorToEigendecomposition ==
    \E x \in Args("tensorToEigendecomposition", SymmetricInputs, "array") :
        \E sol \in Solutions(x) :
            Call("tensorToEigendecomposition", x, tensorToEigendecomposition(x, sol))

CallEigendecompositionToComponents ==
    \E x \in Args("eigendecompositionToComponents", EigInputs, "eig") :
        Call("eigendecompositionToComponents", x, eigendecompositionToComponents(x))

CallComponentsToEigendecomposition ==
    \E x \in Args("componentsToEigendecomposition", DecomposableInputs, "array") :
        \E sol \in ComponentSolutions(x) :
            Call("componentsToEigendecomposition", x, componentsToEigendecomposition(x, sol))

LocIdle ==
    /\ dir = {} /\ path = <<>> /\ scanRev = FALSE /\ pc = "idle"
    /\ prefix = NoValue /\ warnings = 0 /\ loaded = <<>> /\ handle = NoValue

ConvIdle == input0 = NoValue /\ cur = NoValue /\ calls = <<>>

ConvInit == ConvIdle /\ LocIdle

ConvNext ==
    \/ CallTensorToComponents
    \/ CallComponentsToTensor
    \/ CallEigendecompositionToTensor
    \/ CallTensorToEigendecomposition
    \/ CallEigendecompositionToComponents
    \/ CallComponentsToEigendecomposition

Spec == ConvInit /\ [][ConvNext]_vars

----------------------------------------------------------------------------
(* Properties of the conversions. *)

\* The multi-indices of an array of shape s.
Indices(s) == {Unravel(k - 1, s) : k \in 1..Prod(s)}

\* The three vectors and the three values of an eigen-decomposition at the
\* k-th leading index.
VecAt(V, k) == SubSeq(V.data, 3 * (k - 1) + 1, 3 * k)
VecsAt(e, k) == <<VecAt(e.V1, k), VecAt(e.V2, k), VecAt(e.V3, k)>>
ValsAt(e, k) == <<e.L1.data[k], e.L2.data[k], e.L3.data[k]>>

\* The argument is accepted: the shapes agree.
EigShapesAgree(e) ==
    /\ e.L2.shape = e.L1.shape /\ e.L3.shape = e.L1.shape
    /\ \A V \in {e.V1, e.V2, e.V3} : V.shape = e.L1.shape \o <<3>>

\* A valid eigen-decomposition: orthonormal vectors, descending values.
IsValidEig(e) ==
    /\ EigShapesAgree(e)
    /\ \A k \in 1..Prod(e.L1.shape) :
          LET v == VecsAt(e, k)
              l == ValsAt(e, k)
          IN  /\ \A a, b \in 1..3 : Dot(v[a], v[b]) = (IF a = b THEN 1 ELSE 0)
              /\ l[1] >= l[2] /\ l[2] >= l[3]

UpToSign(u, v) == u = v \/ u = [i \in 1..3 |-> -v[i]]

IsSymmetric(m) ==
    /\ LastN(m.shape, 2) = <<3, 3>>
    /\ \A ix \in Indices(DropLastN(m.shape, 2)) : \A i, j \in 0..2 :
          At(m, ix \o <<i, j>>) = At(m, ix \o <<j, i>>)

Decomposed ==
    /\ calls # <<>>
    /\ calls[Len(calls)] \in {"tensorToEigendecomposition", "componentsToEigendecomposition"}
    /\ cur.kind = "eig"

\* C1: whatever tensorToEigendecomposition returns, alone or composed, has
\* L1 >= L2 >= L3 at every leading index, and eigenvalue fields of the leading
\* shape S of its (*S,3,3) argument, S = () included.
C1_EigenvaluesDescending ==
    /\ Decomposed =>
          /\ cur.L2.shape = cur.L1.shape /\ cur.L3.shape = cur.L1.shape
          /\ Len(cur.L1.data) = Prod(cur.L1.shape)
          /\ \A k \in 1..Prod(cur.L1.shape) :
                cur.L1.data[k] >= cur.L2.data[k] /\ cur.L2.data[k] >= cur.L3.data[k]
    /\ (Decomposed /\ calls = <<"tensorToEigendecomposition">>) =>
          cur.L1.shape = DropLastN(input0.shape, 2)

\* A single matrix, S = (), whose diagonal is not in descending order and
\* whose three eigenvalues come back strictly descending.
C1_Witness ==
    /\ calls = <<"tensorToEigendecomposition">>
    /\ input0.shape = <<3, 3>>
    /\ cur.kind = "eig"
    /\ input0.data[1] < input0.data[9] /\ input0.data[9] < input0.data[5]
    /\ cur.L1.data[1] > cur.L2.data[1] /\ cur.L2.data[1] > cur.L3.data[1]

RoundTripped ==
    /\ calls = <<"eigendecompositionToTensor", "tensorToEigendecomposition">>
    /\ IsValidEig(input0)

\* C2, as stated: the round trip of a valid eigen-decomposition, ties among
\* the eigenvalues allowed, returns the same eigenvalues and every eigenvector
\* up to its sign.
C2_Original ==
    RoundTripped =>
        /\ cur.kind = "eig"
        /\ cur.L1 = input0.L1 /\ cur.L2 = input0.L2 /\ cur.L3 = input0.L3
        /\ \A k \in 1..Prod(input0.L1.shape) : \A m \in 1..3 :
              UpToSign(VecsAt(cur, k)[m], VecsAt(input0, k)[m])

\* C2, amended: the round trip returns the same eigenvalues; an eigenvector
\* whose eigenvalue differs from the other two is returned up to its sign; an
\* eigenvector of a repeated eigenvalue is returned as some unit vector of the
\* same eigenspace, orthogonal to every original eigenvector of another
\* eigenvalue.
C2_RoundTripUpToEigenspace ==
    RoundTripped =>
        /\ cur.kind = "eig"
        /\ cur.L1 = input0.L1 /\ cur.L2 = input0.L2 /\ cur.L3 = input0.L3
        /\ cur.V1.shape = input0.V1.shape /\ cur.V2.shape = input0.V2.shape
        /\ cur.V3.shape = input0.V3.shape
        /\ \A k \in 1..Prod(input0.L1.shape) :
              LET l == ValsAt(input0, k)
                  v == VecsAt(input0, k)
                  r == VecsAt(cur, k)
              IN  \A m \in 1..3 :
                     /\ Dot(r[m], r[m]) = 1
                     /\ \A o \in 1..3 : l[o] # l[m] => Dot(r[m], v[o]) = 0
                     /\ (\A o \in (1..3) \ {m} : l[o] # l[m]) => UpToSign(r[m], v[m])

\* A field of two tensors with distinct eigenvalues comes back with V1
\* flipped at the first index and V1 unchanged at the second.
C2_Witness ==
    /\ RoundTripped
    /\ input0.L1.shape = <<2>>
    /\ cur.kind = "eig"
    /\ \A k \in 1..2 : ValsAt(input0, k)[1] > ValsAt(input0, k)[2]
                       /\ ValsAt(input0, k)[2] > ValsAt(input0, k)[3]
    /\ VecAt(cur.V1, 1) # VecAt(input0.V1, 1)
    /\ VecAt(cur.V1, 2) = VecAt(input0.V1, 2)
    /\ VecAt(input0.V1, 1) # VecAt(input0.V1, 2)

\* The component index -> matrix entry table.
ComponentEntry == <<<<0, 0>>, <<0, 1>>, <<0, 2>>, <<1, 1>>, <<1, 2>>, <<2, 2>>>>

Min(x, y) == IF x <= y THEN x ELSE y

\* C3: the components of M are its entries [0,0],[0,1],[0,2],[1,1],[1,2],[2,2]
\* in that order; componentsToTensor(tensorToComponents(M)) has M's shape and
\* at [i,j] the upper-triangle entry [min(i,j),max(i,j)] of M, so it is M when
\* M is symmetric and never depends on M's lower triangle.
C3_TensorRoundTrip ==
    /\ (calls = <<"tensorToComponents">> /\ LastN(input0.shape, 2) = <<3, 3>>) =>
          LET S == DropLastN(input0.shape, 2)
          IN  /\ cur.kind = "array"
              /\ cur.shape = S \o <<6>>
              /\ Len(cur.data) = 6 * Prod(S)
              /\ \A ix \in Indices(S) : \A c \in 0..5 :
                    At(cur, ix \o <<c>>) = At(input0, ix \o ComponentEntry[c + 1])
    /\ (calls = <<"tensorToComponents", "componentsToTensor">>
           /\ LastN(input0.shape, 2) = <<3, 3>>) =>
          /\ cur.kind = "array"
          /\ cur.shape = input0.shape
          /\ Len(cur.data) = Len(input0.data)
          /\ \A ix \in Indices(DropLastN(input0.shape, 2)) : \A i, j \in 0..2 :
                At(cur, ix \o <<i, j>>) = At(input0, ix \o <<Min(i, j), Max(i, j)>>)
          /\ IsSymmetric(input0) => cur = input0

\* A symmetric field of two matrices with entries off the diagonal makes the
\* round trip.
C3_Witness ==
    /\ calls = <<"tensorToComponents", "componentsToTensor">>
    /\ input0.shape = <<2, 3, 3>>
    /\ IsSymmetric(input0)
    /\ At(input0, <<0, 0, 1>>) = 1 /\ At(input0, <<1, 0, 1>>) = 0
    /\ cur = input0

\* The rows of the matrix componentsToTensor builds.
RowTable == <<<<0, 1, 2>>, <<1, 3, 4>>, <<2, 4, 5>>>>

\* C4: componentsToTensor(C) has shape (*S,3,3), rows (c0,c1,c2), (c1,c3,c4),
\* (c2,c4,c5), and is symmetric; tensorToComponents(componentsToTensor(C)) is C.
C4_ComponentRoundTrip ==
    /\ (calls = <<"componentsToTensor">> /\ LastN(input0.shape, 1) = <<6>>) =>
          LET S == DropLastN(input0.shape, 1)
          IN  /\ cur.kind = "array"
              /\ cur.shape = S \o <<3, 3>>
              /\ Len(cur.data) = 9 * Prod(S)
              /\ \A ix \in Indices(S) : \A i, j \in 0..2 :
                    At(cur, ix \o <<i, j>>) = At(input0, ix \o <<RowTable[i + 1][j + 1]>>)
              /\ IsSymmetric(cur)
    /\ (calls = <<"componentsToTensor", "tensorToComponents">>
           /\ LastN(input0.shape, 1) = <<6>>) =>
          cur = input0

\* A field of two component vectors that differ makes the round trip.
C4_Witness ==
    /\ calls = <<"componentsToTensor", "tensorToComponents">>
    /\ input0.shape = <<1, 2, 6>>
    /\ At(input0, <<0, 0, 1>>) = 1 /\ At(input0, <<0, 0, 4>>) = 0
    /\ At(input0, <<0, 1, 1>>) = 0 /\ At(input0, <<0, 1, 4>>) = 1
    /\ cur = input0

\* The shape of the argument violates the function's contract.
ShapeViolation(name, x) ==
    CASE name \in {"tensorToComponents", "tensorToEigendecomposition"} ->
            LastN(x.shape, 2) # <<3, 3>>
      [] name \in {"componentsToTensor", "componentsToEigendecomposition"} ->
            LastN(x.shape, 1) # <<6>>
      [] OTHER -> ~EigShapesAgree(x)

\* C5: a conversion raises exactly when the shape of its argument
\* violates its contract, and what it raises is always the one invalid-shape
\* error (ValueError); a rank-0 argument of componentsToTensor included.
C5_SingleShapeError ==
    Len(calls) = 1 =>
        /\ IsError(cur) <=> ShapeViolation(calls[1], input0)
        /\ IsError(cur) => cur.exc = "ValueError"

\* The tensor entry [i,j] at the k-th leading index as the code computes it:
\* ((L1*V1[j])*V1[i] + (L2*V2[j])*V2[i]) + (L3*V3[j])*V3[i], each operation
\* rounded.
TermAt(l, v, i, j) == FMul(FMul(l, v[j + 1]), v[i + 1])
EntryAt(e, k, i, j) ==
    LET l == ValsAt(e, k)
        v == VecsAt(e, k)
    IN  FAdd(FAdd(TermAt(l[1], v[1], i, j), TermAt(l[2], v[2], i, j)),
             TermAt(l[3], v[3], i, j))

\* No product of the computation is rounded.
ExactProducts(e) ==
    \A k \in 1..Prod(e.L1.shape) : \A m \in 1..3 : \A i, j \in 0..2 :
        LET l == ValsAt(e, k)[m]
            v == VecsAt(e, k)[m]
        IN  /\ FMul(l, v[j + 1]) = l * v[j + 1]
            /\ FMul(l * v[j + 1], v[i + 1]) = l * v[j + 1] * v[i + 1]

Built == calls = <<"eigendecompositionToTensor">> /\ EigShapesAgree(input0)

\* C6, as stated: every entry is L1*V1[i]*V1[j] + L2*V2[i]*V2[j] + L3*V3[i]*V3[j],
\* evaluated as written, and the result is symmetric for any accepted
\* arguments.
C6_Original ==
    Built =>
        /\ cur.kind = "array"
        /\ cur.shape = input0.L1.shape \o <<3, 3>>
        /\ \A k \in 1..Prod(input0.L1.shape) : \A i, j \in 0..2 :
              cur.data[9 * (k - 1) + 3 * i + j + 1] = EntryAt(input0, k, j, i)
        /\ IsSymmetric(cur)

\* C6, amended: every entry [i,j] is the floating-point value
\* ((L1*V1[j])*V1[i] + (L2*V2[j])*V2[i]) + (L3*V3[j])*V3[i]; the result has
\* shape (*S,3,3); it is symmetric whenever no product is rounded, orthonormal
\* vectors or not.
C6_TensorEntries ==
    Built =>
        /\ cur.kind = "array"
        /\ cur.shape = input0.L1.shape \o <<3, 3>>
        /\ Len(cur.data) = 9 * Prod(input0.L1.shape)
        /\ \A k \in 1..Prod(input0.L1.shape) : \A i, j \in 0..2 :
              cur.data[9 * (k - 1) + 3 * i + j + 1] = EntryAt(input0, k, i, j)
        /\ ExactProducts(input0) => IsSymmetric(cur)

\* Vectors that are not orthonormal, no product rounded, and a tensor with
\* entries off the diagonal to which all three terms contribute.
C6_Witness ==
    /\ Built
    /\ ~IsValidEig(input0)
    /\ ExactProducts(input0)
    /\ input0.L1.shape = <<>>
    /\ \A m \in 1..3 : ValsAt(input0, 1)[m] # 0
    /\ VecsAt(input0, 1) = <<<<1, 2, 2>>, <<2, 1, -2>>, <<1, 0, 0>>>>
    /\ At(cur, <<0, 1>>) # 0 /\ At(cur, <<1, 2>>) # 0
    /\ IsSymmetric(cur)

----------------------------------------------------------------------------
(* Strings.  A file name or a path is a sequence of tokens; CharCodes gives *)
(* a token's characters, by which Python compares and sorts strings.        *)

CharCodes ==
    "/" :> <<47>> @@ "." :> <<46>> @@ ".." :> <<46, 46>>
    @@ "_V1" :> <<95, 86, 49>> @@ "_V2" :> <<95, 86, 50>> @@ "_V3" :> <<95, 86, 51>>
    @@ "_L1" :> <<95, 76, 49>> @@ "_L2" :> <<95, 76, 50>> @@ "_L3" :> <<95, 76, 51>>
    @@ "foo" :> <<102, 111, 111>> @@ "bar" :> <<98, 97, 114>>
    @@ "nii" :> <<110, 105, 105>> @@ "gz" :> <<103, 122>> @@ "txt" :> <<116, 120, 116>>
    @@ "old" :> <<111, 108, 100>> @@ "x" :> <<120>> @@ "dti" :> <<100, 116, 105>>
    @@ "data" :> <<100, 97, 116, 97>> @@ "home" :> <<104, 111, 109, 101>>
    @@ "sub" :> <<115, 117, 98>>

Chars(s) == Concat([i \in 1..Len(s) |-> CharCodes[s[i]]])

RECURSIVE SeqLess(_, _)
SeqLess(a, b) ==
    IF a = <<>> THEN b # <<>>
    ELSE IF b = <<>> THEN FALSE
    ELSE IF Head(a) # Head(b) THEN Head(a) < Head(b)
    ELSE SeqLess(Tail(a), Tail(b))

\* s < t for Python strings.
StrLess(s, t) == SeqLess(Chars(s), Chars(t))

\* sorted(S)
RECURSIVE Sorted(_)
Sorted(S) ==
    IF S = {} THEN <<>>
    ELSE LET m == CHOOSE x \in S : \A y \in S : y = x \/ StrLess(x, y)
         IN  <<m>> \o Sorted(S \ {m})

Reverse(q) == [i \in 1..Len(q) |-> q[Len(q) + 1 - i]]

Range(q) == {q[i] : i \in 1..Len(q)}

EndsWith(s, e) == Len(s) >= Len(e) /\ SubSeq(s, Len(s) - Len(e) + 1, Len(s)) = e

StartsWith(s, b) == Len(s) >= Len(b) /\ SubSeq(s, 1, Len(b)) = b

\* os.path.isabs, os.path.join of two parts, os.path.basename.
IsAbs(p) == p # <<>> /\ Head(p) = "/"

Join(a, b) ==
    IF IsAbs(b) THEN b
    ELSE IF a = <<>> \/ a[Len(a)] = "/" THEN a \o b
    ELSE a \o <<"/">> \o b

BaseName(p) ==
    LET slashes == {i \in 1..Len(p) : p[i] = "/"}
        last == IF slashes = {} THEN 0
                ELSE CHOOSE i \in slashes : \A j \in slashes : j <= i
    IN  SubSeq(p, last + 1, Len(p))

\* p.split('/')
RECURSIVE Split(_)
Split(p) ==
    IF \A i \in 1..Len(p) : p[i] # "/" THEN <<p>>
    ELSE LET i == CHOOSE k \in 1..Len(p) : p[k] = "/" /\ \A j \in 1..(k - 1) : p[j] # "/"
         IN  <<SubSeq(p, 1, i - 1)>> \o Split(SubSeq(p, i + 1, Len(p)))

\* The loop of os.path.normpath over the components.
RECURSIVE Collapse(_, _, _)
Collapse(comps, new, initial) ==
    IF comps = <<>> THEN new
    ELSE LET c == Head(comps)
         IN  IF c = <<>> \/ c = <<".">>
             THEN Collapse(Tail(comps), new, initial)
             ELSE IF \/ c # <<"..">>
                     \/ (~initial /\ new = <<>>)
                     \/ (new # <<>> /\ new[Len(new)] = <<"..">>)
             THEN Collapse(Tail(comps), Append(new, c), initial)
             ELSE IF new # <<>>
             THEN Collapse(Tail(comps), SubSeq(new, 1, Len(new) - 1), initial)
             ELSE Collapse(Tail(comps), new, initial)

\* '/'.join(comps)
RECURSIVE JoinComps(_)
JoinComps(comps) ==
    IF comps = <<>> THEN <<>>
    ELSE IF Len(comps) = 1 THEN Head(comps)
    ELSE Head(comps) \o <<"/">> \o JoinComps(Tail(comps))

NormPath(p) ==
    IF p = <<>> THEN <<".">>
    ELSE LET initial == Head(p) = "/"
             body == JoinComps(Collapse(Split(p), <<>>, initial))
             out == IF initial THEN <<"/">> \o body ELSE body
         IN  IF out = <<>> THEN <<".">> ELSE out

\* os.getcwd()
Cwd == <<"/", "home">>

\* os.path.abspath
AbsPath(p) == NormPath(IF IsAbs(p) THEN p ELSE Join(Cwd, p))

----------------------------------------------------------------------------
(* The dataset locator. *)

None == [kind |-> "None"]

Str(s) == [kind |-> "str", s |-> s]

Suffixes == <<"_V1", "_V2", "_V3", "_L1", "_L2", "_L3">>

\* fnmatch of a file name against '*' + suffix + '.*'; glob's '*' does not
\* match a leading dot.
GlobMatch(name, suffix) ==
    /\ name # <<>> /\ Head(name) # "."
    /\ \E i \in 1..(Len(name) - 1) : name[i] = suffix /\ name[i + 1] = "."

\* glob.glob(op.join(path, '*' + suffix + '.*')): the matching files of the
\* directory, in the order the scan lists them.
Glob(d, p, suffix, rev) ==
    LET names == Sorted({n \in d : GlobMatch(n, suffix)})
        listed == IF rev THEN Reverse(names) ELSE names
    IN  [i \in 1..Len(listed) |-> Join(p, listed[i])]

\* re.findall(r'^(.*)_(?:V1|V2|V3|L1|L2|L3).*$', f)[0]: the greedy group ends
\* before the last suffix of the string.
RegexPrefix(f) ==
    LET at == {i \in 1..Len(f) : f[i] \in Range(Suffixes)}
        last == CHOOSE i \in at : \A j \in at : j <= i
    IN  SubSeq(f, 1, last - 1)

\* fslimage.looksLikeImage: the file name ends with an image extension.
ImageExts == {<<".", "nii">>, <<".", "nii", ".", "gz">>}
looksLikeImage(f) == \E e \in ImageExts : EndsWith(f, e)

\* The prefix : [file list] dictionary, in insertion order.
RECURSIVE Gather(_, _)
Gather(files, prefixes) ==
    IF files = <<>> THEN prefixes
    ELSE LET f == Head(files)
             pre == RegexPrefix(f)
             hit == {i \in 1..Len(prefixes) : prefixes[i].key = pre}
         IN  Gather(Tail(files),
                    IF hit = {}
                    THEN Append(prefixes, [key |-> pre, files |-> <<f>>])
                    ELSE LET i == CHOOSE j \in hit : TRUE
                         IN  [prefixes EXCEPT ![i].files = Append(@, f)])

HasSixFiles(g) == Len(g.files) = 6

AllLookLikeImages(g) == \A i \in 1..Len(g.files) : looksLikeImage(g.files[i])

\* The prefixes left after both filters, in insertion order.
Remaining(d, p, rev) ==
    LET files == Concat([k \in 1..6 |-> Glob(d, p, Suffixes[k], rev)])
        kept == SelectSeq(SelectSeq(Gather(files, <<>>), HasSixFiles), AllLookLikeImages)
    IN  [i \in 1..Len(kept) |-> kept[i].key]

\* A slip: the first prefix found is returned, unsorted.
PickPrefix_First(prefixes) == BaseName(prefixes[1])

\* op.basename(sorted(prefixes)[0])
PickPrefix(prefixes) == BaseName(Sorted(Range(prefixes))[1])

\* The value returned and the number of warnings logged.
getDTIFitDataPrefix(d, p, rev) ==
    LET prefixes == Remaining(d, p, rev)
    IN  IF Len(prefixes) = 0 THEN [ret |-> None, warnings |-> 0]
        ELSE [ret |-> Str(PickPrefix(prefixes)),
              warnings |-> IF Len(prefixes) > 1 THEN 1 ELSE 0]

isDTIFitPath(d, p, rev) == getDTIFitDataPrefix(d, p, rev).ret # None

\* fslimage.Image(file without extension): the image of the one file of the
\* directory with that name and an image extension.  It cannot load a file
\* that is not there; what it does with two candidates is left open.
Image(n) == [kind |-> "image", file |-> n, header |-> [geometry |-> n]]

LoadImage(d, p, target) ==
    LET found == {n \in d : \E e \in ImageExts : Join(p, n) = target \o e}
    IN  {Image(n) : n \in found}
            \cup (IF Cardinality(found) = 1 THEN {} ELSE {Raise("PathError")})

\* The six files the constructor asks for, in order.
Targets(p, pre) == [k \in 1..6 |-> Join(p, pre \o <<Suffixes[k]>>)]

\* DTIFitTensor.__init__: imgs[k] is what fslimage.Image returns or raises
\* for the k-th file.  Returns the object, or the exception, and the files
\* that were asked for.
DTIFitTensor(d, p, rev, imgs) ==
    LET found == getDTIFitDataPrefix(d, p, rev).ret
    IN  IF found = None
        THEN [handle |-> Raise("ValueError"), loaded |-> <<>>]
        ELSE LET targets == Targets(p, found.s)
                 failed == {k \in 1..6 : IsError(imgs[k])}
             IN  IF failed # {}
                 THEN LET k == CHOOSE i \in failed : \A j \in failed : i <= j
                      IN  [handle |-> imgs[k], loaded |-> SubSeq(targets, 1, k)]
                 ELSE [handle |-> [kind |-> "DTIFitTensor",
                                   v1 |-> imgs[1], v2 |-> imgs[2], v3 |-> imgs[3],
                                   l1 |-> imgs[4], l2 |-> imgs[5], l3 |-> imgs[6],
                                   header |-> imgs[4].header,
                                   dataSource |-> AbsPath(p),
                                   name |-> BaseName(p)],
                       loaded |-> targets]

\* What fslimage.Image may do for each of the six files.
ImageChoices(d, p, rev) ==
    LET found == getDTIFitDataPrefix(d, p, rev).ret
    IN  IF found = None THEN {<<>>}
        ELSE SeqProduct([k \in 1..6 |-> LoadImage(d, p, Targets(p, found.s)[k])])

\* The accessors.
V1(h) == h.v1
V2(h) == h.v2
V3(h) == h.v3
L1(h) == h.l1
L2(h) == h.l2
L3(h) == h.l3

----------------------------------------------------------------------------
(* The directories and paths the locator is called on. *)

Nii == <<".", "nii">>
NiiGz == <<".", "nii", ".", "gz">>

Full(stem, ext) == {<<stem, Suffixes[k]>> \o ext : k \in 1..6}

\* What a directory may hold for one stem: nothing; the six files; five of
\* them; six files with one suffix twice and one missing; seven files; a file
\* that is no image; a file with a longer extension; mixed extensions.
Layouts(stem) ==
    {{}, Full(stem, Nii), Full(stem, NiiGz)}
    \cup {Full(stem, Nii) \ {<<stem, x>> \o Nii} : x \in {"_V1", "_L3"}}
    \cup {(Full(stem, Nii) \ {<<stem, xy[2]>> \o Nii}) \cup {<<stem, xy[1]>> \o NiiGz} :
            xy \in {<<"_V1", "_L3">>, <<"_L2", "_V1">>}}
    \cup {Full(stem, Nii) \cup {<<stem, "_V2">> \o NiiGz}}
    \cup {(Full(stem, Nii) \ {<<stem, "_V3">> \o Nii}) \cup {<<stem, "_V3", ".", "txt">>}}
    \cup {(Full(stem, Nii) \ {<<stem, "_L1">> \o Nii})
            \cup {<<stem, "_L1", ".", "old", ".", "nii">>}}
    \cup {{<<stem, Suffixes[k]>> \o (IF k <= 3 THEN Nii ELSE NiiGz) : k \in 1..6}}

\* Three files that each match two of the six patterns.
DoubleMatched ==
    {<<"foo", "_V1", ".", "x", s, ".", "nii">> : s \in {"_V2", "_V3", "_L1"}}

Dirs ==
    {a \cup b \cup c : a \in Layouts("foo"), b \in Layouts("bar"), c \in {{}, DoubleMatched}}

Paths ==
    {<<"dti">>, <<"dti", "/">>, <<"/", "data", "/", "dti">>,
     <<"/", "data", "/", "dti", "/">>, <<".">>, <<"sub", "/", "..", "/", "dti">>}

----------------------------------------------------------------------------
(* The locator calls. *)

CallGetDTIFitDataPrefix ==
    /\ pc \in {"idle", "scanned"}
    /\ \E rev \in BOOLEAN :
          LET r == getDTIFitDataPrefix(dir, path, rev)
          IN  /\ scanRev' = rev
              /\ prefix' = r.ret
              /\ warnings' = r.warnings
    /\ pc' = "scanned"
    /\ UNCHANGED <<dir, path, loaded, handle>>
    /\ UNCHANGED convVars

Construct ==
    /\ pc \in {"idle", "scanned"}
    /\ \E rev \in BOOLEAN : \E imgs \in ImageChoices(dir, path, rev) :
          LET r == getDTIFitDataPrefix(dir, path, rev)
              h == DTIFitTensor(dir, path, rev, imgs)
          IN  /\ scanRev' = rev
              /\ prefix' = r.ret
              /\ warnings' = r.warnings
              /\ handle' = h.handle
              /\ loaded' = h.loaded
    /\ pc' = "constructed"
    /\ UNCHANGED <<dir, path>>
    /\ UNCHANGED convVars

LocInit ==
    /\ dir \in Dirs /\ path \in Paths
    /\ scanRev = FALSE /\ pc = "idle"
    /\ prefix = NoValue /\ warnings = 0 /\ loaded = <<>> /\ handle = NoValue
    /\ ConvIdle

LocNext == CallGetDTIFitDataPrefix \/ Construct

SpecLocator == LocInit /\ [][LocNext]_vars

----------------------------------------------------------------------------
(* The locator's properties. *)

\* The (pattern, file) matches of a directory, whatever the listing order.
Entries(d) == {e \in (1..6) \X d : GlobMatch(e[2], Suffixes[e[1]])}

EntriesOf(d, p, c) == {e \in Entries(d) : RegexPrefix(Join(p, e[2])) = c}

\* The prefixes with six matches, all of them images.
Survivors(d, p) ==
    {c \in {RegexPrefix(Join(p, e[2])) : e \in Entries(d)} :
        /\ Cardinality(EntriesOf(d, p, c)) = 6
        /\ \A e \in EntriesOf(d, p, c) : looksLikeImage(Join(p, e[2]))}

MinStr(S) == CHOOSE x \in S : \A y \in S : y = x \/ StrLess(x, y)

\* The directory holds an image file  pre + suffix + '.' + anything.
HoldsImageFor(d, pre, suffix) ==
    \E n \in d : StartsWith(n, pre \o <<suffix, ".">>) /\ looksLikeImage(n)

\* C7: whenever getDTIFitDataPrefix returns a prefix, the directory holds a
\* recognized image file for that prefix and each of the six suffixes _V1,
\* _V2, _V3, _L1, _L2, _L3; a group of six matches that misses a suffix is
\* discarded.
C7_OneFilePerSuffix ==
    (pc # "idle" /\ prefix # None) =>
        \A k \in 1..6 : HoldsImageFor(dir, prefix.s, Suffixes[k])

\* C8: getDTIFitDataPrefix returns None exactly when no prefix survives the
\* filters; with one survivor it returns that prefix's base name and logs no
\* warning; with several it logs one warning and returns the base name of the
\* lexicographically smallest.  The right-hand sides read neither the listing
\* order nor the earlier calls, so the value is the same for every order of
\* the scan and for every repeated call on the directory.
C8_PrefixChoice ==
    pc # "idle" =>
        LET S == Survivors(dir, path)
        IN  /\ prefix.kind \in {"None", "str"}
            /\ (prefix = None) <=> (S = {})
            /\ S = {} => warnings = 0
            /\ Cardinality(S) = 1 =>
                  prefix = Str(BaseName(CHOOSE c \in S : TRUE)) /\ warnings = 0
            /\ Cardinality(S) > 1 =>
                  prefix = Str(BaseName(MinStr(S))) /\ warnings = 1

\* Two complete sets foo_* and bar_*, listed with foo first: "bar" is
\* returned and one warning is logged.
C8_Witness ==
    /\ pc = "scanned" /\ scanRev
    /\ Survivors(dir, path) = {Join(path, <<"foo">>), Join(path, <<"bar">>)}
    /\ prefix = Str(<<"bar">>)
    /\ warnings = 1

\* C9: construction raises the not-a-dataset error exactly when isDTIFitPath
\* is false, and then loads nothing; otherwise the six images prefix_V1,
\* prefix_V2, prefix_V3, prefix_L1, prefix_L2, prefix_L3 are loaded in that
\* order, the header is the L1 image's, and each accessor returns the image
\* of its own suffix.
C9_Construction ==
    pc = "constructed" =>
        LET found == isDTIFitPath(dir, path, scanRev)
            Own(img, k) == /\ img.kind = "image"
                           /\ StartsWith(img.file, prefix.s \o <<Suffixes[k], ".">>)
        IN  /\ (handle = Raise("ValueError")) <=> ~found
            /\ ~found => loaded = <<>>
            /\ found =>
                  /\ handle.kind = "DTIFitTensor"
                  /\ loaded = Targets(path, prefix.s)
                  /\ handle.header = L1(handle).header
                  /\ Own(V1(handle), 1) /\ Own(V2(handle), 2) /\ Own(V3(handle), 3)
                  /\ Own(L1(handle), 4) /\ Own(L2(handle), 5) /\ Own(L3(handle), 6)

\* C10: after a successful construction dataSource is the absolute path of
\* the directory and name is the last component of that absolute path, never
\* the empty string, with or without a trailing separator.
C10_Identity ==
    (pc = "constructed" /\ handle.kind = "DTIFitTensor") =>
        /\ handle.dataSource = AbsPath(path)
        /\ handle.name = BaseName(AbsPath(path))
        /\ handle.name # <<>>

====
